---- MODULE Spec2Model ----
(***************************************************************************)
(* State-machine model of script.js: the drag / momentum / snap            *)
(* controller of the jewelry columns, the active-item tracker and the      *)
(* click selection.                                                        *)
(*                                                                         *)
(* Lengths are fixed-point numbers in half pixels (1 unit = 0.5 px), so    *)
(* that MIN_VELOCITY = 0.5 px/frame is the integer 1; products with the    *)
(* fractional constants (0.95, 0.3, 1000/60) round toward zero.            *)
(* Date.now() is modelled by the elapsed time between two samples, which   *)
(* is an input of handleDragMove; lastDragTime is therefore not kept.      *)
(* The decoration (particles, pulse and ping classes, cursor style, the    *)
(* 'scrolling' class, the place of the tooltip) is not modelled.           *)
(***************************************************************************)
EXTENDS Integers, FiniteSets, Sequences, TLC

VARIABLES
    geom,               \* per column: the layout the page gives it (read only)
    selectedItem,       \* let selectedItem: NoItem or <<column, index>>
    isDragging,
    dragStartY,
    dragStartScrollTop,
    lastDragY,
    velocity,
    sampled,            \* history: a sample with positive elapsed time has set
                        \* velocity since the last drag start
    momentumAnimation,  \* 0 (null) or the handle of the last frame requested
    currentColumn,      \* 0 (null) or a column
    scrollTimeouts,     \* per column: pending scroll-settle timers
    frames,             \* pending requestAnimationFrame(animate) callbacks
    snapTimers,         \* per column: pending setTimeout(updateActiveItem) of snapToItem
    initTimer,          \* the DOMContentLoaded setTimeout is pending
    scrollTop,          \* per column: container.scrollTop
    smooth,             \* per column: target of the running smooth scroll, or NoTarget
    scrollEvt,          \* per column: a 'scroll' event is queued
    active,             \* per column: items carrying class 'active'
    inactive,           \* per column: items carrying class 'inactive'
    selected,           \* items carrying class 'selected', as <<column, index>>
    buttonDisabled,     \* confirmButton.disabled
    tooltip,            \* let tooltipTimeout, the pending tooltip timers, the tooltip
    log                 \* history: column of the latest snapToItem call, and the
                        \* console.error of the last handler

vars == <<geom, selectedItem, isDragging, dragStartY, dragStartScrollTop, lastDragY,
          velocity, sampled, momentumAnimation, currentColumn, scrollTimeouts, frames,
          snapTimers, initTimer, scrollTop, smooth, scrollEvt, active, inactive,
          selected, buttonDisabled, tooltip, log>>

-----------------------------------------------------------------------------
(* Constants of the program, in half pixels where they are lengths.        *)

SNAP_THRESHOLD == 200
MIN_VELOCITY == 1

(* Bounds of the model.                                                    *)
MaxTimers == 1

Columns == {1, 2}
NoItem == <<0, 0>>
NoTarget == -1

(* Pointer positions and elapsed times (ms) offered to the handlers.       *)
Ys == {0, 6}
Dts == {0, 50, 100}

(* Layouts: n items of height h stacked below a padding pad, in a          *)
(* container of height view.                                               *)
Padded == [n |-> 3, h |-> 2, view |-> 6, pad |-> 2]
Lonely == [n |-> 1, h |-> 200, view |-> 800, pad |-> 0]
Empty  == [n |-> 0, h |-> 200, view |-> 600, pad |-> 0]

Abs(x) == IF x < 0 THEN -x ELSE x
TruncDiv(a, b) == IF a >= 0 THEN a \div b ELSE -((-a) \div b)

Items(g) == 0..(g.n - 1)

(* container.scrollHeight - container.clientHeight                         *)
MaxScroll(g) ==
    LET content == 2 * g.pad + g.n * g.h
    IN  IF content > g.view THEN content - g.view ELSE 0

(* itemRect.top + itemRect.height / 2, relative to the content's top.      *)
ItemCenter(g, i) == g.pad + i * g.h + g.h \div 2

(* Math.abs(itemCenterY - centerY) with the container scrolled to s.       *)
Distance(g, s, i) == Abs(ItemCenter(g, i) - s - g.view \div 2)

(* The items.forEach loop of snapToItem and updateActiveItem, from item i  *)
(* on: best is closestItem (-1 for null), min is minDistance (-1 for       *)
(* Infinity).                                                              *)
RECURSIVE ClosestFrom(_, _, _, _, _)
ClosestFrom(g, s, i, best, min) ==
    IF i >= g.n THEN [item |-> best, dist |-> min]
    ELSE IF min = -1 \/ Distance(g, s, i) < min
         THEN ClosestFrom(g, s, i + 1, i, Distance(g, s, i))
         ELSE ClosestFrom(g, s, i + 1, best, min)

(* Mutant: among equally distant items the last one wins (<= for <).       *)
Closest_LastWins(g, s) ==
    IF g.n = 0 THEN [item |-> -1, dist |-> -1]
    ELSE LET k == CHOOSE i \in Items(g) :
                      /\ \A j \in Items(g) : Distance(g, s, i) <= Distance(g, s, j)
                      /\ \A j \in Items(g) : j > i => Distance(g, s, j) > Distance(g, s, i)
         IN  [item |-> k, dist |-> Distance(g, s, k)]

Closest(g, s) == ClosestFrom(g, s, 0, -1, -1)

-----------------------------------------------------------------------------
(* The page: what the DOM and the selection hold. Handlers are functions   *)
(* from page to page; snap is the column of the latest snapToItem call (0  *)
(* before the first), err the message the running handler gave to          *)
(* console.error.                                                          *)

Page == [scrollTop |-> scrollTop, smooth |-> smooth, scrollEvt |-> scrollEvt,
         snapTimers |-> snapTimers, active |-> active, inactive |-> inactive,
         selected |-> selected, selectedItem |-> selectedItem,
         buttonDisabled |-> buttonDisabled, snap |-> log.snap, err |-> "none"]

(* Mutant: a scroll position may leave the scrollable range.               *)
ClampScroll_Free(g, v) == v

(* The browser keeps a scroll position inside [0, scrollHeight - clientHeight]. *)
ClampScroll(g, v) ==
    IF v < 0 THEN 0 ELSE IF v > MaxScroll(g) THEN MaxScroll(g) ELSE v

(* container.scrollTop = v: an instant scroll; it aborts a running smooth  *)
(* scroll and queues a scroll event when the position changed.             *)
SetScrollTop(P, c, v) ==
    LET t == ClampScroll(geom[c], v)
    IN  [P EXCEPT !.scrollTop[c] = t,
                  !.smooth[c] = NoTarget,
                  !.scrollEvt[c] = @ \/ t # P.scrollTop[c]]

(* container.scrollBy({top: d, behavior: 'smooth'})                        *)
ScrollBySmooth(P, c, d) ==
    LET t == ClampScroll(geom[c], P.scrollTop[c] + d)
    IN  [P EXCEPT !.smooth[c] = IF t = P.scrollTop[c] THEN NoTarget ELSE t]

(* Mutant: the nearest item is marked whatever its distance.               *)
updateActiveItem_NoThreshold(P, c) ==
    LET g == geom[c]
        r == Closest(g, P.scrollTop[c])
    IN  IF g.n = 0 THEN P
        ELSE [P EXCEPT !.active[c] = {r.item},
                       !.inactive[c] = Items(g) \ {r.item}]

(* Mutant: the marks of the previous run are not removed.                  *)
updateActiveItem_NoRemove(P, c) ==
    LET g == geom[c]
        r == Closest(g, P.scrollTop[c])
    IN  IF g.n = 0 THEN P
        ELSE IF r.item # -1 /\ r.dist < SNAP_THRESHOLD
             THEN [P EXCEPT !.active[c] = @ \cup {r.item},
                            !.inactive[c] = @ \cup (Items(g) \ {r.item})]
             ELSE P

updateActiveItem(P, c) ==
    LET g == geom[c]
        r == Closest(g, P.scrollTop[c])
    IN  IF g.n = 0 THEN P
        ELSE IF r.item # -1 /\ r.dist < SNAP_THRESHOLD
             THEN [P EXCEPT !.active[c] = {r.item},
                            !.inactive[c] = Items(g) \ {r.item}]
             ELSE [P EXCEPT !.active[c] = {}, !.inactive[c] = {}]

(* Mutant: no check for an empty column; the loop then finds no item and   *)
(* nothing is logged.                                                      *)
snapToItem_NoEmptyCheck(P, c) ==
    LET g == geom[c]
        r == Closest(g, P.scrollTop[c])
        Q == [P EXCEPT !.snap = c]
    IN  IF r.item # -1
        THEN [ScrollBySmooth(Q, c, ItemCenter(g, r.item) - P.scrollTop[c] - g.view \div 2)
                  EXCEPT !.snapTimers[c] = @ + 1]
        ELSE Q

(* Mutant: the snap scrolls but schedules no updateActiveItem.             *)
snapToItem_NoUpdate(P, c) ==
    LET g == geom[c]
        r == Closest(g, P.scrollTop[c])
        Q == [P EXCEPT !.snap = c]
    IN  IF g.n = 0 THEN [Q EXCEPT !.err = "No items found in column"]
        ELSE ScrollBySmooth(Q, c, ItemCenter(g, r.item) - P.scrollTop[c] - g.view \div 2)

snapToItem(P, c) ==
    LET g == geom[c]
        r == Closest(g, P.scrollTop[c])
        Q == [P EXCEPT !.snap = c]
    IN  IF g.n = 0 THEN [Q EXCEPT !.err = "No items found in column"]
        ELSE IF r.item # -1
             THEN [ScrollBySmooth(Q, c, ItemCenter(g, r.item) - P.scrollTop[c] - g.view \div 2)
                       EXCEPT !.snapTimers[c] = @ + 1]
             ELSE Q

selectMiddleItemAsFallback(P, c) ==
    LET g == geom[c]
        middleIndex == g.n \div 2
    IN  IF g.n > 0
        THEN updateActiveItem(
                 ScrollBySmooth(P, c, ItemCenter(g, middleIndex) - P.scrollTop[c] - g.view \div 2),
                 c)
        ELSE P

(* document.querySelector('.jewelry-item.selected'): the first in document *)
(* order, columns then items.                                              *)
FirstSelected(S) ==
    CHOOSE x \in S : \A y \in S : x[1] < y[1] \/ (x[1] = y[1] /\ x[2] <= y[2])

(* Mutant: the previous selection keeps its class.                         *)
RemovePreviousSelection_Kept(S) == S

RemovePreviousSelection(S) == IF S = {} THEN S ELSE S \ {FirstSelected(S)}

(* selectedItem && selectedItem.id && selectedItem.element: every item of  *)
(* the page carries a data-item-id.                                        *)
updateConfirmButton(P) == [P EXCEPT !.buttonDisabled = (P.selectedItem = NoItem)]

(* selectItem(item, column). attached = FALSE is a call with an item that  *)
(* is not in the document: item.parentElement is null, line 378 throws     *)
(* after the previous selection was cleared, and the catch runs.           *)
selectItem(P, c, i, attached) ==
    LET g  == geom[c]
        P1 == [P EXCEPT !.selected = RemovePreviousSelection(@)]
        P2 == [P1 EXCEPT !.selected = @ \cup {<<c, i>>}, !.selectedItem = <<c, i>>]
    IN  IF attached
        THEN ScrollBySmooth(updateConfirmButton(P2), c,
                            ItemCenter(g, i) - P.scrollTop[c] - g.view \div 2)
        ELSE selectMiddleItemAsFallback([P1 EXCEPT !.err = "Error in selectItem"], c)

-----------------------------------------------------------------------------
(* Writing a page back, and the record of the handler that ran.            *)

Commit(P) ==
    /\ scrollTop' = P.scrollTop
    /\ smooth' = P.smooth
    /\ scrollEvt' = P.scrollEvt
    /\ snapTimers' = P.snapTimers
    /\ active' = P.active
    /\ inactive' = P.inactive
    /\ selected' = P.selected
    /\ selectedItem' = P.selectedItem
    /\ buttonDisabled' = P.buttonDisabled

Ran(P) == [snap |-> P.snap, err |-> P.err]

TimersBounded(P) == \A c \in Columns : P.snapTimers[c] <= MaxTimers

session == <<isDragging, dragStartY, dragStartScrollTop, lastDragY, velocity, sampled,
             currentColumn>>

(* requestAnimationFrame returns a handle no pending callback has.         *)
FreshHandle(fs) ==
    CHOOSE h \in 1..(Cardinality(fs) + 1) : \A f \in fs : f.id # h

(* Mutant: the pending frame is not cancelled.                             *)
cancelAnimationFrame_Kept(fs, h) == fs

cancelAnimationFrame(fs, h) == {f \in fs : f.id # h}

(* The tooltip before any hover: tooltipTimeout is null, no timer is       *)
(* pending, the tooltip is hidden and has no text.                         *)
NoTooltip == [timeout |-> 0, timers |-> {}, visible |-> FALSE, text |-> NoItem]

Init ==
    /\ geom \in {[c \in Columns |-> IF c = 1 THEN Padded ELSE g] : g \in {Lonely, Empty}}
    /\ selectedItem = NoItem
    /\ isDragging = FALSE
    /\ dragStartY = 0
    /\ dragStartScrollTop = 0
    /\ lastDragY = 0
    /\ velocity = 0
    /\ sampled = FALSE
    /\ momentumAnimation = 0
    /\ currentColumn = 0
    /\ scrollTimeouts = [c \in Columns |-> 0]
    /\ frames = {}
    /\ snapTimers = [c \in Columns |-> 0]
    /\ initTimer = TRUE
    /\ scrollTop = [c \in Columns |-> 0]
    /\ smooth = [c \in Columns |-> NoTarget]
    /\ scrollEvt = [c \in Columns |-> FALSE]
    /\ active = [c \in Columns |-> {}]
    /\ inactive = [c \in Columns |-> {}]
    /\ selected = {}
    /\ buttonDisabled = TRUE
    /\ tooltip = NoTooltip
    /\ log = [snap |-> 0, err |-> "none"]

-----------------------------------------------------------------------------
(* The drag handlers. c is the column of e.currentTarget, y is clientY.    *)

(* Mutant: a drag start leaves the pending frame alone.                    *)
handleDragStart_NoCancel(c, y) ==
    /\ currentColumn' = c
    /\ isDragging' = TRUE
    /\ velocity' = 0
    /\ sampled' = FALSE
    /\ dragStartY' = y
    /\ dragStartScrollTop' = scrollTop[c]
    /\ lastDragY' = y
    /\ log' = Ran(Page)
    /\ UNCHANGED <<geom, tooltip, selectedItem, scrollTimeouts, snapTimers, initTimer,
                   scrollTop, smooth, scrollEvt, active, inactive, selected,
                   buttonDisabled, frames, momentumAnimation>>

(* Mutant: a drag start keeps the velocity of the gesture before.          *)
handleDragStart_NoReset(c, y) ==
    /\ currentColumn' = c
    /\ isDragging' = TRUE
    /\ sampled' = FALSE
    /\ frames' = IF momentumAnimation # 0
                 THEN cancelAnimationFrame(frames, momentumAnimation)
                 ELSE frames
    /\ momentumAnimation' = 0
    /\ dragStartY' = y
    /\ dragStartScrollTop' = scrollTop[c]
    /\ lastDragY' = y
    /\ log' = Ran(Page)
    /\ UNCHANGED <<geom, tooltip, velocity, selectedItem, scrollTimeouts, snapTimers,
                   initTimer, scrollTop, smooth, scrollEvt, active, inactive, selected,
                   buttonDisabled>>

handleDragStart(c, y) ==
    /\ currentColumn' = c
    /\ isDragging' = TRUE
    /\ velocity' = 0
    /\ sampled' = FALSE
    /\ frames' = IF momentumAnimation # 0
                 THEN cancelAnimationFrame(frames, momentumAnimation)
                 ELSE frames
    /\ momentumAnimation' = 0
    /\ dragStartY' = y
    /\ dragStartScrollTop' = scrollTop[c]
    /\ lastDragY' = y
    /\ log' = Ran(Page)
    /\ UNCHANGED <<geom, tooltip, selectedItem, scrollTimeouts, snapTimers, initTimer, scrollTop,
                   smooth, scrollEvt, active, inactive, selected, buttonDisabled>>

(* Mutant: the sample is added to the running velocity.                    *)
SampleVelocity_Accumulated(moveDelta, timeDelta) ==
    velocity + TruncDiv(moveDelta * 1000, timeDelta * 60)

(* moveDelta / timeDelta * FPS_NORMALIZATION, FPS_NORMALIZATION = 1000/60  *)
SampleVelocity(moveDelta, timeDelta) == TruncDiv(moveDelta * 1000, timeDelta * 60)

(* x * RUBBER_BAND_RESISTANCE, RUBBER_BAND_RESISTANCE = 0.3                *)
RubberBand(x) == TruncDiv(x * 3, 10)

(* The value handleDragMove assigns to container.scrollTop.                *)
DragScrollTop(g, newScrollTop) ==
    IF newScrollTop < 0 THEN RubberBand(newScrollTop)
    ELSE IF newScrollTop > MaxScroll(g)
         THEN MaxScroll(g) + RubberBand(newScrollTop - MaxScroll(g))
         ELSE newScrollTop

(* Mutant: a move is applied whether or not a drag is active.              *)
handleDragMove_NoGuard(c, y, timeDelta) ==
    LET deltaY == dragStartY - y
        P == SetScrollTop(Page, c, DragScrollTop(geom[c], dragStartScrollTop + deltaY))
    IN  /\ velocity' = IF timeDelta > 0
                       THEN SampleVelocity(lastDragY - y, timeDelta)
                       ELSE velocity
        /\ sampled' = (sampled \/ timeDelta > 0)
        /\ lastDragY' = y
        /\ Commit(P)
        /\ log' = Ran(P)
        /\ UNCHANGED <<geom, tooltip, isDragging, dragStartY, dragStartScrollTop,
                       currentColumn, momentumAnimation, scrollTimeouts, frames, initTimer>>

handleDragMove(c, y, timeDelta) ==
    IF ~isDragging
    THEN /\ log' = Ran(Page)
         /\ UNCHANGED <<geom, tooltip, session, momentumAnimation, scrollTimeouts, frames, initTimer>>
         /\ Commit(Page)
    ELSE LET deltaY == dragStartY - y
             P == SetScrollTop(Page, c, DragScrollTop(geom[c], dragStartScrollTop + deltaY))
         IN  /\ velocity' = IF timeDelta > 0
                            THEN SampleVelocity(lastDragY - y, timeDelta)
                            ELSE velocity
             /\ sampled' = (sampled \/ timeDelta > 0)
             /\ lastDragY' = y
             /\ Commit(P)
             /\ log' = Ran(P)
             /\ UNCHANGED <<geom, tooltip, isDragging, dragStartY, dragStartScrollTop, currentColumn,
                            momentumAnimation, scrollTimeouts, frames, initTimer>>

(* Mutant: a velocity equal to the threshold starts momentum too.          *)
AboveThreshold_OrEqual(v) == Abs(v) >= MIN_VELOCITY

(* Math.abs(velocity) > MIN_VELOCITY                                       *)
AboveThreshold(v) == Abs(v) > MIN_VELOCITY

(* applyMomentum(container, initialVelocity): the first frame is requested. *)
applyMomentum(fs, c, initialVelocity) ==
    fs \cup {[id |-> FreshHandle(fs), col |-> c, vel |-> initialVelocity]}

handleDragEnd(c) ==
    IF ~isDragging
    THEN /\ log' = Ran(Page)
         /\ UNCHANGED <<geom, tooltip, session, momentumAnimation, scrollTimeouts, frames, initTimer>>
         /\ Commit(Page)
    ELSE /\ isDragging' = FALSE
         /\ currentColumn' = 0
         /\ IF AboveThreshold(velocity)
            THEN /\ frames' = applyMomentum(frames, c, velocity)
                 /\ momentumAnimation' = FreshHandle(frames)
                 /\ Commit(Page)
                 /\ log' = Ran(Page)
            ELSE LET P == snapToItem(Page, currentColumn)
                 IN  /\ TimersBounded(P)
                     /\ Commit(P)
                     /\ log' = Ran(P)
                     /\ UNCHANGED <<frames, momentumAnimation>>
         /\ UNCHANGED <<geom, tooltip, dragStartY, dragStartScrollTop, lastDragY, velocity, sampled,
                        scrollTimeouts, initTimer>>

(* Mutant: no friction, the velocity never decays.                         *)
Friction_None(v) == v

(* currentVelocity *= VELOCITY_MULTIPLIER, VELOCITY_MULTIPLIER = 0.95      *)
Friction(v) == TruncDiv(v * 95, 100)

(* Mutant: a velocity equal to the threshold ends the loop too.            *)
BelowThreshold_OrEqual(v) == Abs(v) <= MIN_VELOCITY

(* Math.abs(currentVelocity) < MIN_VELOCITY                                *)
BelowThreshold(v) == Abs(v) < MIN_VELOCITY

(* One run of animate() for the pending frame f.                           *)
animate(f) ==
    LET c == f.col
        rest == frames \ {f}
        newScrollTop == scrollTop[c] + f.vel
        stop == \/ BelowThreshold(f.vel)
                \/ newScrollTop < 0
                \/ newScrollTop > MaxScroll(geom[c])
        P == IF BelowThreshold(f.vel) THEN snapToItem(Page, c)
             ELSE IF newScrollTop < 0 THEN snapToItem(SetScrollTop(Page, c, 0), c)
             ELSE IF newScrollTop > MaxScroll(geom[c])
                  THEN snapToItem(SetScrollTop(Page, c, MaxScroll(geom[c])), c)
                  ELSE SetScrollTop(Page, c, newScrollTop)
    IN  /\ f \in frames
        /\ TimersBounded(P)
        /\ Commit(P)
        /\ frames' = IF stop THEN rest
                     ELSE rest \cup {[id |-> FreshHandle(rest), col |-> c,
                                      vel |-> Friction(f.vel)]}
        /\ momentumAnimation' = IF stop THEN momentumAnimation ELSE FreshHandle(rest)
        /\ log' = Ran(P)
        /\ UNCHANGED <<geom, tooltip, session, scrollTimeouts, initTimer>>

-----------------------------------------------------------------------------
(* The browser's side of scrolling, and the timers.                        *)

(* One animation tick of a smooth scroll from s to its target t: at most   *)
(* half a pixel, and the last tick lands on the target.                    *)
SmoothAdvance(s, t) ==
    IF t - s > 1 THEN s + 1 ELSE IF s - t > 1 THEN s - 1 ELSE t

smoothScrollStep(c) ==
    /\ smooth[c] # NoTarget
    /\ LET s == SmoothAdvance(scrollTop[c], smooth[c])
           P == [Page EXCEPT !.scrollTop[c] = s,
                             !.smooth[c] = IF s = smooth[c] THEN NoTarget ELSE @,
                             !.scrollEvt[c] = TRUE]
       IN  /\ Commit(P)
           /\ log' = Ran(P)
    /\ UNCHANGED <<geom, tooltip, session, momentumAnimation, scrollTimeouts, frames, initTimer>>

(* Mutant: the pending settle timer is not cleared.                        *)
ArmScrollTimeout_NoClear(n) == n + 1

(* clearTimeout(existingTimeout) when there is one, then setTimeout: the   *)
(* number of pending settle timers of the column afterwards.               *)
ArmScrollTimeout(n) == (IF n > 0 THEN n - 1 ELSE n) + 1

(* The 'scroll' listener of a column.                                      *)
onScroll(c) ==
    /\ scrollEvt[c]
    /\ scrollTimeouts' = [scrollTimeouts EXCEPT ![c] = ArmScrollTimeout(@)]
    /\ LET P == updateActiveItem([Page EXCEPT !.scrollEvt[c] = FALSE], c)
       IN  /\ Commit(P)
           /\ log' = Ran(P)
    /\ UNCHANGED <<geom, tooltip, session, momentumAnimation, frames, initTimer>>

(* The callback of the scroll-settle timer.                                *)
scrollSettled(c) ==
    /\ scrollTimeouts[c] > 0
    /\ scrollTimeouts' = [scrollTimeouts EXCEPT ![c] = @ - 1]
    /\ LET P == updateActiveItem(Page, c)
       IN  /\ Commit(P)
           /\ log' = Ran(P)
    /\ UNCHANGED <<geom, tooltip, session, momentumAnimation, frames, initTimer>>

(* The callback snapToItem schedules after SNAP_UPDATE_DELAY.              *)
snapUpdate(c) ==
    /\ snapTimers[c] > 0
    /\ LET P == updateActiveItem([Page EXCEPT !.snapTimers[c] = @ - 1], c)
       IN  /\ Commit(P)
           /\ log' = Ran(P)
    /\ UNCHANGED <<geom, tooltip, session, momentumAnimation, scrollTimeouts, frames, initTimer>>

(* The 'click' listener of a column, on item i.                            *)
onClick(c, i) ==
    /\ i \in Items(geom[c])
    /\ LET P == IF ~isDragging THEN selectItem(Page, c, i, TRUE) ELSE Page
       IN  /\ Commit(P)
           /\ log' = Ran(P)
    /\ UNCHANGED <<geom, tooltip, session, momentumAnimation, scrollTimeouts, frames, initTimer>>

(* selectItem called with an item that is not attached to the document.    *)
selectDetached(c) ==
    /\ LET P == selectItem(Page, c, 0, FALSE)
       IN  /\ Commit(P)
           /\ log' = Ran(P)
    /\ UNCHANGED <<geom, tooltip, session, momentumAnimation, scrollTimeouts, frames, initTimer>>

(* The DOMContentLoaded timer: selectMiddleItemAsFallback on every column. *)
onLoadTimer ==
    /\ initTimer
    /\ initTimer' = FALSE
    /\ LET P == selectMiddleItemAsFallback(selectMiddleItemAsFallback(Page, 1), 2)
       IN  /\ Commit(P)
           /\ log' = Ran(P)
    /\ UNCHANGED <<geom, tooltip, session, momentumAnimation, scrollTimeouts, frames>>

(* clearTimeout(tooltipTimeout): the pending tooltip timers without the    *)
(* one tooltipTimeout names.                                               *)
ClearTooltipTimeout(T) == {t \in T.timers : t.id # T.timeout}

(* The 'mouseenter' listener of item x.                                    *)
onMouseEnter(x) ==
    /\ x[1] \in Columns /\ x[2] \in Items(geom[x[1]])
    /\ LET rest == ClearTooltipTimeout(tooltip)
       IN  tooltip' = [tooltip EXCEPT !.timers = rest \cup {[id |-> FreshHandle(rest), item |-> x]},
                                      !.timeout = FreshHandle(rest)]
    /\ log' = Ran(Page)
    /\ UNCHANGED <<geom, session, momentumAnimation, scrollTimeouts, frames, initTimer>>
    /\ Commit(Page)

(* The callback of a tooltip timer: the tooltip shows the item's text.     *)
showTooltip(t) ==
    /\ t \in tooltip.timers
    /\ tooltip' = [tooltip EXCEPT !.timers = @ \ {t}, !.visible = TRUE, !.text = t.item]
    /\ log' = Ran(Page)
    /\ UNCHANGED <<geom, session, momentumAnimation, scrollTimeouts, frames, initTimer>>
    /\ Commit(Page)

(* The 'mouseleave' listener of item x.                                    *)
onMouseLeave(x) ==
    /\ x[1] \in Columns /\ x[2] \in Items(geom[x[1]])
    /\ tooltip' = [tooltip EXCEPT !.timers = ClearTooltipTimeout(tooltip), !.visible = FALSE]
    /\ log' = Ran(Page)
    /\ UNCHANGED <<geom, session, momentumAnimation, scrollTimeouts, frames, initTimer>>
    /\ Commit(Page)

-----------------------------------------------------------------------------
(* Spec: the page under drag gestures (mouse and touch listeners of both   *)
(* columns, in any order), with the browser's scrolling and the timers.    *)
(* SpecSelect: the page under clicks and under presses without a move.     *)

Next ==
    \/ \E c \in Columns, y \in Ys : handleDragStart(c, y)
    \/ \E c \in Columns, y \in Ys, dt \in Dts : handleDragMove(c, y, dt)
    \/ \E c \in Columns : handleDragEnd(c)
    \/ \E f \in frames : animate(f)
    \/ \E c \in Columns : smoothScrollStep(c)
    \/ \E c \in Columns : onScroll(c)
    \/ \E c \in Columns : scrollSettled(c)
    \/ \E c \in Columns : snapUpdate(c)
    \/ onLoadTimer

Spec == Init /\ [][Next]_vars

NextSelect ==
    \/ \E c \in Columns, i \in 0..2 : onClick(c, i)
    \/ \E c \in Columns : selectDetached(c)
    \/ \E c \in Columns, y \in Ys : handleDragStart(c, y)
    \/ \E c \in Columns : handleDragEnd(c)
    \/ \E c \in Columns : smoothScrollStep(c)
    \/ \E c \in Columns : onScroll(c)
    \/ \E c \in Columns : scrollSettled(c)
    \/ \E c \in Columns : snapUpdate(c)
    \/ onLoadTimer

SpecSelect == Init /\ [][NextSelect]_vars

-----------------------------------------------------------------------------
(* C1: at most one item of the page carries class 'selected', and a click  *)
(* that runs selectItem(X) to its end leaves exactly X selected, whatever  *)
(* was selected before and however soon after the previous click.          *)
C1_SingleSelection ==
    /\ [](Cardinality(selected) <= 1)
    /\ [][\A c \in Columns, i \in 0..2 :
             (~isDragging /\ onClick(c, i)) => selected' = {<<c, i>>}]_vars

(* A second click took the selection to the other column while the smooth  *)
(* scroll of the first click is still running.                             *)
C1_Witness ==
    /\ selected = {<<2, 0>>}
    /\ selectedItem = <<2, 0>>
    /\ smooth[1] = 4
    /\ snapTimers[1] = 0
    /\ initTimer

(* Nothing is moving column c any more: no drag, no momentum frame of the  *)
(* column, no smooth scroll.                                               *)
AtRest(c) ==
    /\ ~isDragging
    /\ \A f \in frames : f.col # c
    /\ smooth[c] = NoTarget

Settled(c) ==
    /\ AtRest(c)
    /\ ~scrollEvt[c]
    /\ scrollTimeouts[c] = 0
    /\ snapTimers[c] = 0

(* The last drag ended at or below the threshold and snapped column c, and *)
(* the column has settled since. (velocity keeps its value from the drag   *)
(* end on; no momentum frame exists after such a drag end until the next   *)
(* drag, so log.snap is the column that drag end snapped.)                 *)
SlowDragSettled(c) ==
    /\ ~isDragging
    /\ ~AboveThreshold(velocity)
    /\ log.snap = c
    /\ Settled(c)

Nearest(c) == Closest(geom[c], scrollTop[c])

(* C3 as stated: after a drag on a non-empty column that ended at or below *)
(* the threshold has settled, exactly the item nearest the viewport center *)
(* is active, for every layout.                                            *)
C3_AlwaysOneActive ==
    \A c \in Columns :
        (geom[c].n > 0 /\ SlowDragSettled(c)) => active[c] = {Nearest(c).item}

(* C3 amended: after such a drag has settled, the item nearest the         *)
(* viewport center is the one active item when its distance to the center  *)
(* at the rest offset is below SNAP_THRESHOLD, and no item is active       *)
(* otherwise.                                                              *)
C3_OneActiveWithinThreshold ==
    \A c \in Columns :
        (geom[c].n > 0 /\ SlowDragSettled(c)) =>
            active[c] = IF Nearest(c).dist < SNAP_THRESHOLD
                        THEN {Nearest(c).item}
                        ELSE {}

(* A slow drag took the padded column to its bottom and it settled with    *)
(* its last item centered and active.                                      *)
C3_Witness ==
    /\ SlowDragSettled(1)
    /\ lastDragY # dragStartY
    /\ scrollTop[1] = 4
    /\ active[1] = {2}

(* A step that ends an active drag session.                                *)
DragEnds == isDragging /\ ~isDragging'

(* C4: a drag end with |velocity| at or below MIN_VELOCITY requests no     *)
(* momentum frame and calls snapToItem in the same step; one with          *)
(* |velocity| above it requests the first frame and calls no snapToItem;   *)
(* and a first momentum frame appears only at a drag end above the         *)
(* threshold.                                                              *)
C4_MomentumXorSnap ==
    [][/\ DragEnds =>
            IF Abs(velocity) > MIN_VELOCITY
            THEN /\ frames \subseteq frames'
                 /\ Cardinality(frames') = Cardinality(frames) + 1
                 /\ snapTimers' = snapTimers /\ smooth' = smooth
                 /\ log' = [log EXCEPT !.err = "none"]
            ELSE /\ frames' = frames
                 /\ log'.snap = currentColumn
                 /\ IF geom[currentColumn].n > 0
                    THEN snapTimers'[currentColumn] = snapTimers[currentColumn] + 1
                    ELSE log'.err = "No items found in column"
       /\ (frames = {} /\ frames' # {}) => (DragEnds /\ Abs(velocity) > MIN_VELOCITY)
      ]_vars

(* A drag ended with the velocity exactly at the threshold: the column was *)
(* snapped (its update timer is still pending) and no frame is pending.    *)
C4_Witness ==
    /\ ~isDragging
    /\ velocity = MIN_VELOCITY
    /\ frames = {}
    /\ log.snap = 1
    /\ snapTimers[1] = 1
    /\ scrollTop[1] = 4 /\ smooth[1] = NoTarget /\ ~scrollEvt[1] /\ scrollTimeouts[1] = 0

(* C5: handleDragStart leaves no momentum frame pending, and none is       *)
(* pending while the drag lasts: no frame of a loop that was in flight     *)
(* when the drag started runs during or after it.                          *)
C5_DragStartCancelsMomentum ==
    /\ [](isDragging => frames = {})
    /\ [][(\E c \in Columns, y \in Ys : handleDragStart(c, y)) => frames' = {}]_vars

(* A drag started on column 1 while its momentum loop was in flight: the   *)
(* offset 2 is reached only by a momentum frame, and no loop has ended     *)
(* yet (snapToItem was never called).                                      *)
C5_Witness ==
    /\ isDragging
    /\ currentColumn = 1
    /\ frames = {}
    /\ initTimer
    /\ log.snap = 0
    /\ scrollTop[1] = 2
    /\ dragStartScrollTop = 2

(* A step of one of the drag listeners of column b.                        *)
DragHandlerOf(b) ==
    \/ \E y \in Ys : handleDragStart(b, y)
    \/ \E y \in Ys, dt \in Dts : handleDragMove(b, y, dt)
    \/ handleDragEnd(b)

FramesOf(fs, a) == {f \in fs : f.col = a}

(* C6: the drag listeners of a column b leave every other column a alone   *)
(* (its drag session, its momentum loop, its offset, its snap), and the    *)
(* moves and the end of a gesture act on the column the gesture started on. *)
C6_ColumnsIndependent ==
    [][\A a, b \in Columns :
         (a # b /\ DragHandlerOf(b)) =>
            /\ FramesOf(frames', a) = FramesOf(frames, a)
            /\ scrollTop'[a] = scrollTop[a]
            /\ smooth'[a] = smooth[a]
            /\ snapTimers'[a] = snapTimers[a]
            /\ (isDragging /\ currentColumn = a) =>
                   /\ scrollTop'[b] = scrollTop[b]
                   /\ isDragging' /\ currentColumn' = a
                   /\ dragStartY' = dragStartY /\ dragStartScrollTop' = dragStartScrollTop
      ]_vars

(* FairSpec: the drag gestures on a page whose second column is empty,     *)
(* with one sample interval, and with the fairness the browser gives: a    *)
(* requested animation frame is run and a due timer fires.                 *)
InitMomentum == Init /\ geom[2] = Empty

NextMomentum ==
    \/ \E c \in Columns, y \in Ys : handleDragStart(c, y)
    \/ \E c \in Columns, y \in Ys : handleDragMove(c, y, 50)
    \/ \E c \in Columns : handleDragEnd(c)
    \/ \E f \in frames : animate(f)
    \/ \E c \in Columns : snapUpdate(c)

FrameOrTimer == (\E f \in frames : animate(f)) \/ (\E c \in Columns : snapUpdate(c))

FairSpec == InitMomentum /\ [][NextMomentum]_vars /\ WF_vars(FrameOrTimer)

(* C7: a momentum loop does not run for ever: pending frames lead to no    *)
(* pending frame. A frame either requests exactly one next frame of its    *)
(* column, with a velocity smaller in size, and calls no snapToItem; or it *)
(* ends the loop with one snapToItem call on its own column. It ends the   *)
(* loop exactly when |velocity| is below MIN_VELOCITY or a bound is hit.   *)
C7_MomentumTerminatesInSnap ==
    /\ (frames # {}) ~> (frames = {})
    /\ [][\A f \in frames :
             animate(f) =>
                LET c == f.col
                    ends == \/ Abs(f.vel) < MIN_VELOCITY
                            \/ scrollTop[c] + f.vel < 0
                            \/ scrollTop[c] + f.vel > MaxScroll(geom[c])
                IN  IF ends
                    THEN /\ frames' = frames \ {f}
                         /\ log'.snap = c
                         /\ IF geom[c].n > 0
                            THEN snapTimers'[c] = snapTimers[c] + 1
                            ELSE log'.err = "No items found in column"
                    ELSE /\ \E n \in frames' :
                              /\ frames' = (frames \ {f}) \cup {n}
                              /\ n \notin frames \ {f}
                              /\ n.col = c
                              /\ Abs(n.vel) < Abs(f.vel)
                         /\ snapTimers' = snapTimers
                         /\ log'.snap = log.snap
      ]_vars

(* A loop ran two frames on column 1 from offset 0, decayed below the      *)
(* threshold and ended in its snap, before anything else called            *)
(* snapToItem.                                                             *)
C7_Witness ==
    /\ ~isDragging
    /\ frames = {}
    /\ velocity = 2
    /\ initTimer
    /\ log.snap = 1
    /\ scrollTop[1] = 3
    /\ smooth[1] = 2
    /\ snapTimers[1] = 1

(* A step in which snapToItem is called with column c: a drag end at or    *)
(* below the threshold while c is currentColumn, or the last frame of a    *)
(* momentum loop of c.                                                     *)
SnapCalled(c) ==
    \/ DragEnds /\ ~AboveThreshold(velocity) /\ currentColumn = c
    \/ \E f \in frames : animate(f) /\ f.col = c /\ frames' = frames \ {f}

(* C9: snapToItem on a column without items changes neither the offset nor *)
(* any item state, schedules nothing, reports to console.error, and        *)
(* returns: the drag end that called it completes (currentColumn = null).  *)
C9_SnapEmptyColumnNoOp ==
    [][\A c \in Columns :
         (geom[c].n = 0 /\ SnapCalled(c)) =>
            /\ scrollTop'[c] = scrollTop[c]
            /\ smooth'[c] = smooth[c]
            /\ scrollEvt'[c] = scrollEvt[c]
            /\ active' = active /\ inactive' = inactive
            /\ selected' = selected /\ selectedItem' = selectedItem
            /\ snapTimers' = snapTimers /\ scrollTimeouts' = scrollTimeouts
            /\ log' = [snap |-> c, err |-> "No items found in column"]
            /\ DragEnds => currentColumn' = 0
      ]_vars

(* A slow drag on the empty column has just ended.                         *)
C9_Witness ==
    /\ geom[2] = Empty
    /\ ~isDragging
    /\ ~AboveThreshold(velocity)
    /\ currentColumn = 0
    /\ log = [snap |-> 2, err |-> "No items found in column"]
    /\ snapTimers[2] = 0

(* C10: when selectItem fails, the middle item of the column (index        *)
(* floor(count / 2)) is the selected item afterwards.                      *)
C10_FailureSelectsMiddle ==
    [][\A c \in Columns :
         (geom[c].n > 0 /\ selectDetached(c)) =>
            /\ selected' = {<<c, geom[c].n \div 2>>}
            /\ selectedItem' = <<c, geom[c].n \div 2>>
      ]_vars

-----------------------------------------------------------------------------
(* SpecSnap: snapToItem over layouts and offsets. Column 1 has one of the  *)
(* layouts below and starts at any offset of its range; a press and        *)
(* release without a move snaps it.                                        *)
Five == [n |-> 5, h |-> 2, view |-> 6, pad |-> 0]
Pair == [n |-> 2, h |-> 4, view |-> 4, pad |-> 1]
SnapLayouts == {Padded, Five, Pair, Lonely}

InitSnap ==
    /\ \E g \in SnapLayouts :
          /\ geom = [c \in Columns |-> IF c = 1 THEN g ELSE Empty]
          /\ \E s \in 0..MaxScroll(g) :
                scrollTop = [c \in Columns |-> IF c = 1 THEN s ELSE 0]
    /\ selectedItem = NoItem
    /\ isDragging = FALSE
    /\ dragStartY = 0
    /\ dragStartScrollTop = 0
    /\ lastDragY = 0
    /\ velocity = 0
    /\ sampled = FALSE
    /\ momentumAnimation = 0
    /\ currentColumn = 0
    /\ scrollTimeouts = [c \in Columns |-> 0]
    /\ frames = {}
    /\ snapTimers = [c \in Columns |-> 0]
    /\ initTimer = TRUE
    /\ smooth = [c \in Columns |-> NoTarget]
    /\ scrollEvt = [c \in Columns |-> FALSE]
    /\ active = [c \in Columns |-> {}]
    /\ inactive = [c \in Columns |-> {}]
    /\ selected = {}
    /\ buttonDisabled = TRUE
    /\ tooltip = NoTooltip
    /\ log = [snap |-> 0, err |-> "none"]

NextSnap ==
    \/ \E c \in Columns, y \in Ys : handleDragStart(c, y)
    \/ \E c \in Columns : handleDragEnd(c)
    \/ \E c \in Columns : smoothScrollStep(c)
    \/ \E c \in Columns : snapUpdate(c)

SpecSnap == InitSnap /\ [][NextSnap]_vars

(* The items of layout g at the least distance from the viewport center    *)
(* when the container is scrolled to s.                                    *)
AtLeastDistance(g, s) ==
    {i \in Items(g) : \A j \in Items(g) : Distance(g, s, i) <= Distance(g, s, j)}

Earliest(S) == CHOOSE i \in S : \A j \in S : i <= j

(* C8: snapToItem on a non-empty column picks the earliest of the items    *)
(* at the least distance from the viewport center, and asks for a smooth   *)
(* scroll by that item's center minus the viewport center.                 *)
C8_SnapNearestEarliest ==
    [][\A c \in Columns :
         (DragEnds /\ currentColumn = c /\ ~AboveThreshold(velocity) /\ geom[c].n > 0) =>
            LET g == geom[c]
                s == scrollTop[c]
                k == Earliest(AtLeastDistance(g, s))
                d == ItemCenter(g, k) - (s + g.view \div 2)
                t == IF s + d < 0 THEN 0
                     ELSE IF s + d > MaxScroll(g) THEN MaxScroll(g) ELSE s + d
            IN  /\ Closest(g, s).item = k
                /\ (g = Five /\ s = 4) => k = 3
                /\ smooth'[c] = IF t = s THEN NoTarget ELSE t
                /\ log'.snap = c
      ]_vars

(* Five items of height H in a viewport of 3H at offset 1.5H: items 2 and  *)
(* 3 are equally near, the snap scrolls to center item 2 (offset H).       *)
C8_Witness ==
    /\ geom[1] = Five
    /\ ~isDragging
    /\ log.snap = 1
    /\ snapTimers[1] = 1
    /\ scrollTop[1] = 3
    /\ smooth[1] = 2

-----------------------------------------------------------------------------
(* SpecActive: a column under drag moves and scroll events. Its two items  *)
(* lie below a padding taller than SNAP_THRESHOLD, so that the nearest     *)
(* item is out of the threshold at the top offset and within it further    *)
(* down.                                                                   *)
Gapped == [n |-> 2, h |-> 2, view |-> 10, pad |-> 207]

InitActive ==
    /\ geom = [c \in Columns |-> IF c = 1 THEN Gapped ELSE Empty]
    /\ selectedItem = NoItem
    /\ isDragging = FALSE
    /\ dragStartY = 0
    /\ dragStartScrollTop = 0
    /\ lastDragY = 0
    /\ velocity = 0
    /\ sampled = FALSE
    /\ momentumAnimation = 0
    /\ currentColumn = 0
    /\ scrollTimeouts = [c \in Columns |-> 0]
    /\ frames = {}
    /\ snapTimers = [c \in Columns |-> 0]
    /\ initTimer = TRUE
    /\ scrollTop = [c \in Columns |-> 0]
    /\ smooth = [c \in Columns |-> NoTarget]
    /\ scrollEvt = [c \in Columns |-> FALSE]
    /\ active = [c \in Columns |-> {}]
    /\ inactive = [c \in Columns |-> {}]
    /\ selected = {}
    /\ buttonDisabled = TRUE
    /\ tooltip = NoTooltip
    /\ log = [snap |-> 0, err |-> "none"]

NextActive ==
    \/ \E c \in Columns, y \in Ys : handleDragStart(c, y)
    \/ \E c \in Columns, y \in Ys : handleDragMove(c, y, 0)
    \/ \E c \in Columns : onScroll(c)
    \/ \E c \in Columns : scrollSettled(c)
    \/ onLoadTimer

SpecActive == InitActive /\ [][NextActive]_vars

(* A step that runs updateActiveItem on column c: the scroll listener, the *)
(* settle timer, the timer of a snap, or the load timer (which runs it on  *)
(* every column).                                                          *)
UpdateRuns(c) == onScroll(c) \/ scrollSettled(c) \/ snapUpdate(c) \/ onLoadTimer

(* The earliest of the items nearest the viewport center after the step,   *)
(* and its distance.                                                       *)
NearestAfter(c) == Earliest(AtLeastDistance(geom[c], scrollTop'[c]))
NearestDistanceAfter(c) == Distance(geom[c], scrollTop'[c], NearestAfter(c))

(* C11 as stated: after updateActiveItem on a non-empty column, the        *)
(* nearest item alone is active and every other item inactive when its     *)
(* distance is below SNAP_THRESHOLD; otherwise no item is active and every *)
(* item is marked inactive.                                                *)
C11_ElseAllMarkedInactive ==
    [][\A c \in Columns :
         (geom[c].n > 0 /\ UpdateRuns(c)) =>
            IF NearestDistanceAfter(c) < SNAP_THRESHOLD
            THEN /\ active'[c] = {NearestAfter(c)}
                 /\ inactive'[c] = Items(geom[c]) \ {NearestAfter(c)}
            ELSE /\ active'[c] = {}
                 /\ inactive'[c] = Items(geom[c])
      ]_vars

(* C11 amended: after updateActiveItem on a non-empty column, the nearest  *)
(* item alone is active and every other item inactive when its distance is *)
(* below SNAP_THRESHOLD; otherwise no item carries either mark.            *)
C11_ElseNoMark ==
    [][\A c \in Columns :
         (geom[c].n > 0 /\ UpdateRuns(c)) =>
            IF NearestDistanceAfter(c) < SNAP_THRESHOLD
            THEN /\ active'[c] = {NearestAfter(c)}
                 /\ inactive'[c] = Items(geom[c]) \ {NearestAfter(c)}
            ELSE /\ active'[c] = {}
                 /\ inactive'[c] = {}
      ]_vars

(* The column was dragged down, where its first item is within the         *)
(* threshold, and back to the top, where it is not; the scroll listener    *)
(* ran updateActiveItem there and no item carries a mark.                  *)
C11_Witness ==
    /\ geom[1] = Gapped
    /\ scrollTop[1] = 0
    /\ ~scrollEvt[1]
    /\ dragStartScrollTop > 0
    /\ active[1] = {}
    /\ inactive[1] = {}

-----------------------------------------------------------------------------
(* SpecAll: every listener of the page together (drags with one sample     *)
(* interval, momentum frames, clicks, scroll events, timers), on a page    *)
(* whose second column is empty.                                           *)
NextAll ==
    \/ NextMomentum
    \/ \E c \in Columns : smoothScrollStep(c)
    \/ \E c \in Columns : onScroll(c)
    \/ \E c \in Columns : scrollSettled(c)
    \/ onLoadTimer
    \/ \E c \in Columns, i \in 0..2 : onClick(c, i)

SpecAll == InitMomentum /\ [][NextAll]_vars

(* C12: in every reachable state each column has at most one item marked   *)
(* active, and no item is marked both active and inactive.                 *)
C12_AtMostOneActive ==
    \A c \in Columns :
        /\ Cardinality(active[c]) <= 1
        /\ active[c] \cap inactive[c] = {}

(* The last item was clicked and scrolled to the center, the active mark   *)
(* moved from the first item to it; a drag is going on.                    *)
C12_Witness ==
    /\ selected = {<<1, 2>>}
    /\ scrollTop[1] = 4
    /\ active[1] = {2}
    /\ inactive[1] = {0, 1}
    /\ isDragging
    /\ ~initTimer

(* C13: the updateActiveItem a snap schedules runs only when the smooth    *)
(* scroll of that snap has reached its target, never while it is in        *)
(* progress. (Under SpecSnap a snap is called only while no timer of a     *)
(* snap is pending and nothing else scrolls, so a scroll in progress when  *)
(* the timer fires is the scroll of the snap that set the timer.)          *)
C13_UpdateAfterScrollSettles ==
    [][\A c \in Columns : snapUpdate(c) => smooth[c] = NoTarget]_vars

(* C14: in every reachable state the confirm button is enabled exactly     *)
(* when a selected item exists: selectedItem names an item and that item   *)
(* carries the selection (every item of the page has an id and stays       *)
(* attached). In particular the button is disabled whenever no item is     *)
(* selected.                                                               *)
C14_ConfirmEnabledIffValid ==
    (~buttonDisabled) <=> (selectedItem # NoItem /\ selectedItem \in selected)

(* C15: a move sample of an active drag with elapsed time 0 leaves         *)
(* velocity unchanged; one with positive elapsed time sets velocity to     *)
(* (lastDragY - clientY) / elapsed * (1000 / 60), rounded toward zero,     *)
(* whatever the velocity was before.                                       *)
C15_LastSampleWins ==
    [][\A c \in Columns, y \in Ys, dt \in Dts :
         (isDragging /\ handleDragMove(c, y, dt)) =>
            IF dt = 0
            THEN velocity' = velocity
            ELSE LET exact == (lastDragY - y) * 1000
                     unit  == dt * 60
                 IN  /\ Abs(velocity') * unit <= Abs(exact)
                     /\ Abs(exact) < (Abs(velocity') + 1) * unit
                     /\ (velocity' > 0) = (exact >= unit)
                     /\ (velocity' < 0) = (exact <= -unit)
      ]_vars

(* A drag sampled a velocity of -2 moving down by 3 px in 50 ms, and a     *)
(* second sample with elapsed time 0 moved back up: velocity kept its      *)
(* value (a sample with positive elapsed time would have made it           *)
(* positive).                                                              *)
C15_Witness ==
    /\ isDragging
    /\ dragStartY = 0
    /\ lastDragY = 0
    /\ velocity = -2

-----------------------------------------------------------------------------
(* SpecTimers: the debounced listeners: scroll events (made by drag moves) *)
(* with their settle timers, and hovers over the items with the tooltip    *)
(* timer, in any order.                                                    *)
AllItems == {x \in Columns \X (0..2) : x[2] \in Items(geom[x[1]])}

NextTimers ==
    \/ \E c \in Columns, y \in Ys : handleDragStart(c, y)
    \/ \E c \in Columns, y \in Ys : handleDragMove(c, y, 0)
    \/ \E c \in Columns : onScroll(c)
    \/ \E c \in Columns : scrollSettled(c)
    \/ \E x \in AllItems : onMouseEnter(x)
    \/ \E t \in tooltip.timers : showTooltip(t)
    \/ \E x \in AllItems : onMouseLeave(x)

SpecTimers == Init /\ [][NextTimers]_vars

(* C16: every column has at most one pending scroll-settle timer and the   *)
(* page at most one pending tooltip timer, in every state; after each      *)
(* scroll event of a column exactly one settle timer of the column is      *)
(* pending, so a burst of events is followed by one settle callback.       *)
C16_TimersNeverStack ==
    /\ [](\A c \in Columns : scrollTimeouts[c] <= 1)
    /\ [](Cardinality(tooltip.timers) <= 1)
    /\ [][\A c \in Columns : onScroll(c) => scrollTimeouts'[c] = 1]_vars
    /\ [][\A c \in Columns : (scrollTimeouts[c] = 1 /\ scrollSettled(c)) =>
                                 scrollTimeouts'[c] = 0]_vars

(* Column 1 was scrolled twice by a drag (from 0 to 4 and back, each with  *)
(* its scroll event) and one settle timer is pending; a second item was    *)
(* hovered while the tooltip of another was shown, and one tooltip timer   *)
(* is pending.                                                             *)
C16_Witness ==
    /\ scrollTimeouts[1] = 1
    /\ scrollTop[1] = 0 /\ ~scrollEvt[1]
    /\ dragStartScrollTop = 4
    /\ tooltip.visible
    /\ tooltip.text = <<1, 0>>
    /\ \E t \in tooltip.timers : t.item = <<1, 1>> /\ tooltip.timers = {t}

-----------------------------------------------------------------------------
(* What a momentum frame f of column c can do.                             *)

(* The frame ends its loop: no further frame, and snapToItem is called on  *)
(* its column in the same step.                                            *)
EndsInSnap(f) ==
    /\ frames' = frames \ {f}
    /\ log'.snap = f.col
    /\ IF geom[f.col].n > 0
       THEN snapTimers'[f.col] = snapTimers[f.col] + 1
       ELSE log'.err = "No items found in column"

(* The frame advances the offset by exactly its velocity and the loop goes *)
(* on with the velocity multiplied by 0.95 (rounded toward zero), without  *)
(* calling snapToItem.                                                     *)
AdvancesWithFriction(f) ==
    /\ scrollTop'[f.col] = scrollTop[f.col] + f.vel
    /\ \E n \in frames' :
          /\ frames' = (frames \ {f}) \cup {n}
          /\ n.col = f.col
          /\ Abs(n.vel) * 100 <= Abs(f.vel) * 95
          /\ Abs(f.vel) * 95 < (Abs(n.vel) + 1) * 100
          /\ (n.vel < 0) => (f.vel < 0)
          /\ (n.vel > 0) => (f.vel > 0)
    /\ snapTimers' = snapTimers
    /\ log'.snap = log.snap

InRange(c, s) == s >= 0 /\ s <= MaxScroll(geom[c])

(* C17 as stated: a frame whose offset + velocity falls outside            *)
(* [0, maxOffset] sets the offset to the violated bound and ends in the    *)
(* snap; every other frame advances by its velocity and goes on with       *)
(* friction. A frame leaves the offset in range.                           *)
C17_ClampElseAdvance ==
    [][\A f \in frames :
         animate(f) =>
            LET c == f.col
                s == scrollTop[c] + f.vel
            IN  /\ IF s < 0 THEN scrollTop'[c] = 0 /\ EndsInSnap(f)
                   ELSE IF s > MaxScroll(geom[c])
                        THEN scrollTop'[c] = MaxScroll(geom[c]) /\ EndsInSnap(f)
                        ELSE AdvancesWithFriction(f)
                /\ InRange(c, scrollTop'[c])
      ]_vars

(* C17 amended: a frame whose |velocity| is below MIN_VELOCITY leaves the  *)
(* offset alone and ends in the snap; otherwise a frame whose offset +     *)
(* velocity falls outside [0, maxOffset] sets the offset to the violated   *)
(* bound and ends in the snap; every other frame advances by its velocity  *)
(* and goes on with friction. A frame leaves the offset in range.          *)
C17_BelowElseClampElseAdvance ==
    [][\A f \in frames :
         animate(f) =>
            LET c == f.col
                s == scrollTop[c] + f.vel
            IN  /\ IF Abs(f.vel) < MIN_VELOCITY
                   THEN scrollTop'[c] = scrollTop[c] /\ EndsInSnap(f)
                   ELSE IF s < 0 THEN scrollTop'[c] = 0 /\ EndsInSnap(f)
                   ELSE IF s > MaxScroll(geom[c])
                        THEN scrollTop'[c] = MaxScroll(geom[c]) /\ EndsInSnap(f)
                        ELSE AdvancesWithFriction(f)
                /\ InRange(c, scrollTop'[c])
      ]_vars

(* A loop of velocity 2 started at offset 3 of column 1 (maxOffset 4): its *)
(* first frame would have reached 5, set the offset to 4 and ended in the  *)
(* snap, before anything else called snapToItem.                           *)
C17_Witness ==
    /\ ~isDragging
    /\ frames = {}
    /\ velocity = 2
    /\ dragStartScrollTop = 3
    /\ scrollTop[1] = 4
    /\ log.snap = 1
    /\ snapTimers[1] = 1
    /\ initTimer

-----------------------------------------------------------------------------
(* A step of a drag listener of some column.                               *)
DragStarts == \E c \in Columns, y \in Ys : handleDragStart(c, y)
DragMoveOrEnd ==
    \/ \E c \in Columns, y \in Ys, dt \in Dts : handleDragMove(c, y, dt)
    \/ \E c \in Columns : handleDragEnd(c)

(* C18: a move or an end received while no drag is active changes neither  *)
(* an offset, nor the session, nor the momentum loop, nor a mark or the    *)
(* selection, and calls no snapToItem; and isDragging becomes true only in *)
(* handleDragStart, which always sets it, and false only in handleDragEnd, *)
(* which always clears it.                                                 *)
C18_NoSessionNoEffect ==
    [][/\ (~isDragging /\ DragMoveOrEnd) =>
            /\ UNCHANGED <<session, momentumAnimation, frames, scrollTop, smooth, scrollEvt,
                           snapTimers, scrollTimeouts, active, inactive, selected,
                           selectedItem, buttonDisabled>>
            /\ log'.snap = log.snap
       /\ DragStarts => isDragging'
       /\ (isDragging /\ \E c \in Columns : handleDragEnd(c)) => ~isDragging'
       /\ (~isDragging /\ isDragging') => DragStarts
       /\ (isDragging /\ ~isDragging') => \E c \in Columns : handleDragEnd(c)
      ]_vars

(* No drag is active while a momentum loop is in flight on column 1 and    *)
(* an item is selected: a move or an end received now finds an offset, a   *)
(* loop and a selection it could disturb.                                  *)
C18_Witness ==
    /\ ~isDragging
    /\ currentColumn = 0
    /\ frames = {[id |-> 1, col |-> 1, vel |-> 1]}
    /\ scrollTop[1] = 2
    /\ selected = {<<1, 1>>}
    /\ log.err = "none"

(* C19: in every reachable state at most one momentum frame is pending on  *)
(* the whole page.                                                         *)
C19_OneFramePending == Cardinality(frames) <= 1

(* A frame of a loop on column 2 is pending, after a loop on column 1 had  *)
(* moved that column to offset 2 and was cancelled by the drag start on    *)
(* column 2: no loop has ended in its snap yet, and nothing else scrolled  *)
(* column 1 (no click, no load timer).                                     *)
C19_Witness ==
    /\ \E f \in frames : f.col = 2 /\ frames = {f}
    /\ scrollTop[1] = 2
    /\ smooth[1] = NoTarget
    /\ log.snap = 0
    /\ selected = {}
    /\ initTimer

(* C20: a drag end that no sample with positive elapsed time preceded      *)
(* since the drag start calls snapToItem and requests no momentum frame,   *)
(* whatever the velocity of the gestures before; and handleDragStart       *)
(* leaves velocity at 0.                                                   *)
C20_VelocityNeverLeaks ==
    [][/\ DragStarts => velocity' = 0
       /\ (DragEnds /\ ~sampled) =>
            /\ frames' = frames
            /\ log'.snap = currentColumn
            /\ IF geom[currentColumn].n > 0
               THEN snapTimers'[currentColumn] = snapTimers[currentColumn] + 1
               ELSE log'.err = "No items found in column"
      ]_vars

(* A gesture that ended with velocity 2 started a momentum loop on column  *)
(* 1; the next gesture, a press and release with no sample of positive     *)
(* elapsed time, cancelled the loop at offset 2 and called snapToItem      *)
(* there (the first call on the page; the middle item is centered at 2).   *)
C20_Witness ==
    /\ ~isDragging
    /\ ~sampled
    /\ velocity = 0
    /\ frames = {}
    /\ dragStartScrollTop = 2
    /\ scrollTop[1] = 2
    /\ smooth[1] = NoTarget
    /\ log.snap = 1
    /\ snapTimers[1] = 1
    /\ selected = {}
    /\ initTimer

====
